---------------------------- MODULE Spec2Model ----------------------------
(***************************************************************************)
(* Phase/iteration state machine of one BRER ensemble member and its       *)
(* persisted run metadata (correlation_structure/run_config.py and         *)
(* correlation_structure/run_data.py).                                     *)
(*                                                                         *)
(* Python floats are modelled by integers (1 stands for 1.0); str() of a   *)
(* float is modelled by Str, which yields the decimal text "1.0".          *)
(* A Python dict whose iteration order matters (the mapping returned by    *)
(* the resampler, the alphas mapping built during harvest) is a sequence   *)
(* of <<key, value>> items in insertion order; the metadata stores, whose  *)
(* order is never observed, are functions from key to value.               *)
(***************************************************************************)
EXTENDS Integers, Sequences, FiniteSets, TLC

(***************************************************************************)
(* Bounds of the model.                                                    *)
(***************************************************************************)
\* targets the resampler can draw for a pair: 1..MaxTarget
MaxTarget == 2
\* coupling constants the engine can report for a pair: 1..MaxAlpha
MaxAlpha == 2
\* absolute end times the engine can report after convergence: 1..MaxTime
MaxTime == 1
\* run() is not started once the iteration counter exceeds MaxIter
MaxIter == 2
\* a History taken by itself is given new entries up to MaxEntries
MaxEntries == 2

TargetSpace == 1..MaxTarget
AlphaSpace == 1..MaxAlpha
TimeSpace == 1..MaxTime

(***************************************************************************)
(* Inputs of the constructor: the pair-data file and the directory names.  *)
(***************************************************************************)
\* names of the pairs in the pair-data file, in file order
PairNames == <<"C-D", "A-B">>
\* position of a pair name in Python's ascending str order
NameOrd == [n \in {"A-B", "C-D"} |-> IF n = "A-B" THEN 1 ELSE 2]
\* the atom ids of each pair in the pair-data file
PairSites == [n \in {"A-B", "C-D"} |-> IF n = "A-B" THEN <<3673, 5636>> ELSE <<4125, 6001>>]
ens_dir == "/ens"
ensemble_num == 1
\* the work sample the driver passes to the constructor: its default
work_sample == 1
\* the value the driver script sets A to
driver_A == 100
\* the ensemble-wide history the driver script reads from history.json
ensemble_history == [k \in {"1.0,2.0"} |-> <<1, 2>>]

Names == {PairNames[i] : i \in 1..Len(PairNames)}

(***************************************************************************)
(* Python helpers.                                                         *)
(***************************************************************************)
\* str(x) of a float with an integral value
Str(x) == ToString(x) \o ".0"

\* d[key] = value on a dict held as a function
Put(d, key, value) == [k \in (DOMAIN d) \cup {key} |-> IF k = key THEN value ELSE d[k]]

EmptyDict == [k \in {} |-> 0]

\* keys of an insertion-ordered dict, in insertion order
Keys(items) == [i \in 1..Len(items) |-> items[i][1]]

\* d[key] on an insertion-ordered dict
Lookup(items, key) == items[CHOOSE i \in 1..Len(items) : items[i][1] = key][2]

\* d[key] = value on an insertion-ordered dict
PutItem(items, key, value) ==
    IF \E i \in 1..Len(items) : items[i][1] = key
    THEN [i \in 1..Len(items) |-> IF items[i][1] = key THEN <<key, value>> ELSE items[i]]
    ELSE Append(items, <<key, value>>)

RECURSIVE InsertSorted(_, _)
InsertSorted(s, n) ==
    IF s = <<>> THEN <<n>>
    ELSE IF NameOrd[n] < NameOrd[Head(s)] THEN <<n>> \o s
    ELSE <<Head(s)>> \o InsertSorted(Tail(s), n)

RECURSIVE Sorted(_)
\* sorted(list(keys))
Sorted(keys) == IF keys = <<>> THEN <<>> ELSE InsertSorted(Sorted(Tail(keys)), Head(keys))

RECURSIVE Join(_)
\* ",".join(strs)
Join(strs) ==
    IF strs = <<>> THEN ""
    ELSE IF Len(strs) = 1 THEN strs[1]
    ELSE strs[1] \o "," \o Join(Tail(strs))

\* all insertion-ordered dicts over the pair names with values in S
RECURSIVE Orderings(_)
Orderings(S) ==
    IF S = {} THEN {<<>>}
    ELSE UNION {{<<n>> \o o : o \in Orderings(S \ {n})} : n \in S}

DictsOver(S) ==
    UNION {{[i \in 1..Len(o) |-> <<o[i], f[o[i]]>>] : f \in [Names -> S]} : o \in Orderings(Names)}

(***************************************************************************)
(* MetaData: the base class of the parameter stores (metadata.py).  An     *)
(* object is its name, its required keys and its _metadata dict.           *)
(***************************************************************************)
MetaData(name) == [name |-> name, required |-> {}, metadata |-> EmptyDict]

set_requirements(obj, keys) == [obj EXCEPT !.required = keys]

get_requirements(obj) == obj.required

MetaData_set(obj, key, value) == [obj EXCEPT !.metadata = Put(obj.metadata, key, value)]

MetaData_get(obj, key) == obj.metadata[key]

set_from_dictionary(obj, data) == [obj EXCEPT !.metadata = data]

get_as_dictionary(obj) == obj.metadata

\* MetaData.get fails for a key that was never set
MetaData_get_raises(obj, key) == key \notin DOMAIN obj.metadata

(***************************************************************************)
(* GeneralParams, PairParams and History (run_data.py).                    *)
(***************************************************************************)
GeneralKeys ==
    {"ensemble_num", "iteration", "phase", "start_time", "A", "tau", "tolerance",
     "num_samples", "sample_period", "production_time"}

PairKeys == {"sites", "logging_filename", "alpha", "target"}

\* the defaults of GeneralParams; tolerance 0.25 is held in hundredths
GeneralDefaults ==
    [ensemble_num |-> 1, iteration |-> 0, phase |-> "training", start_time |-> 0,
     A |-> 50, tau |-> 50, tolerance |-> 25, num_samples |-> 50,
     sample_period |-> 100, production_time |-> 10000]

GeneralParams_set_to_defaults(obj) == set_from_dictionary(obj, GeneralDefaults)

GeneralParams == set_requirements(MetaData("general"), GeneralKeys)

PairParams(name) == set_requirements(MetaData(name), PairKeys)

PairParams_set_to_defaults_skipping_alpha(obj) == MetaData_set(obj, "target", 3)

PairParams_set_to_defaults(obj) == MetaData_set(MetaData_set(obj, "alpha", 0), "target", 3)

load_sites(obj, sites) ==
    MetaData_set(MetaData_set(obj, "sites", sites), "logging_filename", obj.name \o ".log")

History == MetaData("history")

\* the key under which History files a target set: lines 95-96 and 103-104
target_key_unsorted(targets) ==
    Join([i \in 1..Len(targets) |-> Str(targets[i][2])])

target_key(targets) ==
    LET sorted_keys == Sorted(Keys(targets))
    IN  Join([i \in 1..Len(sorted_keys) |-> Str(Lookup(targets, sorted_keys[i]))])

check_targets_never(history, targets) == FALSE

check_targets_insertion_order(history, targets) ==
    target_key_unsorted(targets) \in DOMAIN history.metadata

check_targets(history, targets) == target_key(targets) \in DOMAIN history.metadata

new_entry_insertion_order(history, alphas, targets) ==
    IF target_key(targets) \in DOMAIN history.metadata
    THEN history
    ELSE MetaData_set(history, target_key(targets),
                      [i \in 1..Len(targets) |-> Lookup(alphas, Keys(targets)[i])])

new_entry_overwriting(history, alphas, targets) ==
    LET sorted_keys == Sorted(Keys(targets))
    IN  IF \E i \in 1..Len(sorted_keys) : sorted_keys[i] \notin {alphas[j][1] : j \in 1..Len(alphas)}
        THEN history
        ELSE MetaData_set(history, target_key(targets),
                          [i \in 1..Len(sorted_keys) |-> Lookup(alphas, sorted_keys[i])])

new_entry(history, alphas, targets) ==
    LET sorted_keys == Sorted(Keys(targets))
    IN  IF target_key(targets) \in DOMAIN history.metadata
        THEN history
        ELSE MetaData_set(history, target_key(targets),
                          [i \in 1..Len(sorted_keys) |-> Lookup(alphas, sorted_keys[i])])

\* new_entry raises KeyError: line 108 reads alphas[key] for every pair of targets,
\* and is reached only when the key is not yet stored
new_entry_raises(history, alphas, targets) ==
    /\ target_key(targets) \notin DOMAIN history.metadata
    /\ \E i \in 1..Len(targets) : targets[i][1] \notin {alphas[j][1] : j \in 1..Len(alphas)}

\* the History after a call of new_entry, whether it returned or raised
new_entry_call(history, alphas, targets) ==
    IF new_entry_raises(history, alphas, targets) THEN history
    ELSE new_entry(history, alphas, targets)

(***************************************************************************)
(* RunData (run_data.py).  The name None is the empty string.              *)
(***************************************************************************)
RunData ==
    [general_params |-> GeneralParams_set_to_defaults(GeneralParams),
     pair_params |-> EmptyDict,
     history |-> History]

\* RunData.set raises KeyError at line 152: no pair of this name
RunData_set_key_error(rd, name) == name # "" /\ name \notin DOMAIN rd.pair_params

RunData_set_raises_only_unnamed(rd, name, key) ==
    name = "" /\ key \notin get_requirements(rd.general_params) /\ key # "history"

\* RunData.set raises ValueError for this key
RunData_set_raises(rd, name, key) ==
    IF name = ""
    THEN key \notin get_requirements(rd.general_params) /\ key # "history"
    ELSE key \notin get_requirements(rd.pair_params[name])

\* RunData.set(name, key=value) when it does not raise
RunData_set(rd, name, key, value) ==
    IF name = ""
    THEN IF key \in get_requirements(rd.general_params)
         THEN [rd EXCEPT !.general_params = MetaData_set(@, key, value)]
         ELSE [rd EXCEPT !.history = MetaData_set(@, key, value)]
    ELSE [rd EXCEPT !.pair_params[name] = MetaData_set(@, key, value)]

RECURSIVE store_all(_, _, _)
store_all(rd, name, kwargs) ==
    IF kwargs = <<>> THEN rd
    ELSE store_all(RunData_set(rd, name, Head(kwargs)[1], Head(kwargs)[2]), name, Tail(kwargs))

RunData_set_kwargs_all_or_nothing(rd, name, kwargs) ==
    LET bad == {i \in 1..Len(kwargs) :
                    RunData_set_key_error(rd, name) \/ RunData_set_raises(rd, name, kwargs[i][1])}
        first == CHOOSE i \in bad : \A j \in bad : i <= j
    IN  IF kwargs = <<>> \/ bad = {}
        THEN [run_data |-> store_all(rd, name, kwargs), raised |-> "", at |-> ""]
        ELSE [run_data |-> rd,
              raised |-> IF RunData_set_key_error(rd, name) THEN "KeyError" ELSE "ValueError",
              at |-> kwargs[first][1]]

RECURSIVE RunData_set_kwargs(_, _, _)
\* RunData.set(name, **kwargs): the keys are taken in order up to the first that
\* raises; kwargs is the sequence of <<key, value>>, at is the key that raised
RunData_set_kwargs(rd, name, kwargs) ==
    IF kwargs = <<>> THEN [run_data |-> rd, raised |-> "", at |-> ""]
    ELSE IF RunData_set_key_error(rd, name)
         THEN [run_data |-> rd, raised |-> "KeyError", at |-> Head(kwargs)[1]]
    ELSE IF RunData_set_raises(rd, name, Head(kwargs)[1])
         THEN [run_data |-> rd, raised |-> "ValueError", at |-> Head(kwargs)[1]]
    ELSE RunData_set_kwargs(RunData_set(rd, name, Head(kwargs)[1], Head(kwargs)[2]),
                            name, Tail(kwargs))

\* RunData.get(key, name) when it does not raise
RunData_get(rd, key, name) ==
    IF key \in get_requirements(rd.general_params)
    THEN MetaData_get(rd.general_params, key)
    ELSE IF name # "" THEN MetaData_get(rd.pair_params[name], key)
    ELSE rd.history

\* RunData.get raises ValueError: lines 177-180
RunData_get_raises(rd, key, name) ==
    /\ key \notin get_requirements(rd.general_params)
    /\ name = ""
    /\ key # "history"

\* the error RunData.get(key, name) ends with, "" when it returns
RunData_get_error(rd, key, name) ==
    IF key \in get_requirements(rd.general_params)
    THEN IF MetaData_get_raises(rd.general_params, key) THEN "MissingValueError" ELSE ""
    ELSE IF name # ""
         THEN IF name \notin DOMAIN rd.pair_params THEN "KeyError"
              ELSE IF MetaData_get_raises(rd.pair_params[name], key)
                   THEN "MissingValueError" ELSE ""
    ELSE IF RunData_get_raises(rd, key, name) THEN "ValueError" ELSE ""

as_dictionary(rd) ==
    [k \in {"general parameters", "pair parameters", "history"} |->
        IF k = "general parameters" THEN get_as_dictionary(rd.general_params)
        ELSE IF k = "pair parameters"
             THEN [name \in DOMAIN rd.pair_params |-> get_as_dictionary(rd.pair_params[name])]
        ELSE get_as_dictionary(rd.history)]

from_dictionary_without_history(rd, data) ==
    [general_params |-> set_from_dictionary(rd.general_params, data["general parameters"]),
     history |-> rd.history,
     pair_params |->
        [name \in (DOMAIN rd.pair_params) \cup (DOMAIN data["pair parameters"]) |->
            IF name \in DOMAIN data["pair parameters"]
            THEN set_from_dictionary(PairParams(name), data["pair parameters"][name])
            ELSE rd.pair_params[name]]]

from_dictionary(rd, data) ==
    [general_params |-> set_from_dictionary(rd.general_params, data["general parameters"]),
     history |-> set_from_dictionary(rd.history, data["history"]),
     pair_params |->
        [name \in (DOMAIN rd.pair_params) \cup (DOMAIN data["pair parameters"]) |->
            IF name \in DOMAIN data["pair parameters"]
            THEN set_from_dictionary(PairParams(name), data["pair parameters"][name])
            ELSE rd.pair_params[name]]]

from_pair_data(rd, name, sites) ==
    [rd EXCEPT !.pair_params =
        Put(@, name, PairParams_set_to_defaults(load_sites(PairParams(name), sites)))]

(***************************************************************************)
(* State of one ensemble member: its files and the driver process.         *)
(***************************************************************************)
VARIABLES
    pc,              \* position of the driver process: "down" when no process runs
    run_data,        \* RunConfig.run_data of the running process
    state_json,      \* the file <ens_dir>/mem_<n>/state.json: <<>> or <<document>>
    files,           \* the checkpoint files (state.cpt, state.cpt.bak) that exist
    cwd,             \* the working directory of the process
    phase,           \* local variable phase of run()
    set_next_phase,  \* argument of the run() call in progress
    targets,         \* local variable targets of __train
    potentials,      \* context.potentials after the engine has run
    end_time,        \* end time handed to the engine by __production
    doc_before,      \* state.json as it was when the current run() was called
    mem_before,      \* the metadata the process held when the current run() was called
    outcome,         \* the last event of the process: "none", "created", "reloaded",
                     \* "configured", "running", "returned", "raised", "killed"
    engine_invoked,  \* whether the current run() has started the engine
    first_in_ledger, \* whether the first draw of this run() was already in the history
    redrew,          \* whether this run() has drawn again after a rejected draw
    called_from_pair_data,  \* whether the constructor called from_pair_data
    call,            \* the call last made on an object taken by itself, with its result
    recorded         \* the signatures handed to new_entry on a History taken by itself

vars ==
    <<pc, run_data, state_json, files, cwd, phase, set_next_phase,
      targets, potentials, end_time, doc_before, mem_before, outcome, engine_invoked,
      first_in_ledger, redrew, called_from_pair_data, call, recorded>>

locals == <<targets, potentials, end_time, first_in_ledger, redrew>>

\* the variables that only the specifications of single objects change
harness == <<call, recorded>>

\* no call has been made on a single object
NoCall == [op |-> "none"]

(***************************************************************************)
(* Paths (directory_helper.py, RunConfig.__move_cpt).                      *)
(***************************************************************************)
\* Python's None where an int is expected
None == -1

\* '{}'.format(x) of an int or of None
Format(x) == IF x = None THEN "None" ELSE ToString(x)

\* the error get_dir ends with, "" when it returns: the assert of level work_sample
\* (line 88), KeyError of pdict['work_sample'] (line 90), ValueError of line 93
get_dir_error(pdict, level) ==
    IF level = "work_sample"
    THEN IF pdict["phase"] \notin {"convergence", "production"} THEN "AssertionError"
         ELSE IF "work_sample" \notin DOMAIN pdict THEN "KeyError" ELSE ""
    ELSE IF level \notin {"top", "ensemble_num", "iteration", "phase"} THEN "ValueError"
    ELSE ""

get_dir(top_dir, pdict, level) ==
    IF level = "top" THEN top_dir
    ELSE IF level = "ensemble_num" THEN top_dir \o "/mem_" \o ToString(pdict["ensemble_num"])
    ELSE IF level = "iteration"
         THEN top_dir \o "/mem_" \o ToString(pdict["ensemble_num"]) \o "/"
              \o ToString(pdict["iteration"])
    ELSE IF level = "phase"
         THEN top_dir \o "/mem_" \o ToString(pdict["ensemble_num"]) \o "/"
              \o ToString(pdict["iteration"]) \o "/" \o pdict["phase"]
    ELSE top_dir \o "/mem_" \o ToString(pdict["ensemble_num"]) \o "/"
         \o ToString(pdict["iteration"]) \o "/" \o pdict["phase"] \o "/"
         \o Format(pdict["work_sample"])

\* the error build_working_dir ends with, "" when it returns
build_working_dir_error(pdict) ==
    IF pdict["phase"] \in {"convergence", "production"}
    THEN get_dir_error(pdict, "work_sample") ELSE ""

\* the directories build_working_dir makes sure exist: makedirs of the phase
\* directory with its parents, then of the work-sample directory unless get_dir raised
build_working_dir(top_dir, pdict) ==
    {get_dir(top_dir, pdict, l) : l \in {"top", "ensemble_num", "iteration", "phase"}}
    \cup (IF pdict["phase"] \in {"convergence", "production"}
             /\ build_working_dir_error(pdict) = ""
          THEN {get_dir(top_dir, pdict, "work_sample")} ELSE {})

\* __change_directory: the parameters handed to DirectoryHelper
change_directory_params(rd, ws) ==
    IF RunData_get(rd, "phase", "") # "training"
    THEN Put(get_as_dictionary(rd.general_params), "work_sample", ws)
    ELSE get_as_dictionary(rd.general_params)

\* __change_directory: the directory the process changes into
change_directory(rd, ws) ==
    get_dir(ens_dir, change_directory_params(rd, ws),
            IF RunData_get(rd, "phase", "") = "training" THEN "phase" ELSE "work_sample")

\* __move_cpt: updated_path
updated_path(rd, ws) ==
    IF RunData_get(rd, "phase", "") = "training"
    THEN ens_dir \o "/mem_" \o ToString(RunData_get(rd, "ensemble_num", "")) \o "/"
         \o ToString(RunData_get(rd, "iteration", "")) \o "/" \o RunData_get(rd, "phase", "")
         \o "/state.cpt"
    ELSE ens_dir \o "/mem_" \o ToString(RunData_get(rd, "ensemble_num", "")) \o "/"
         \o ToString(RunData_get(rd, "iteration", "")) \o "/" \o RunData_get(rd, "phase", "")
         \o "/" \o ToString(ws) \o "/state.cpt"

\* __move_cpt: gmx_cpt, the convergence checkpoint of the current iteration
gmx_cpt(rd, ws) ==
    ens_dir \o "/mem_" \o ToString(RunData_get(rd, "ensemble_num", "")) \o "/"
    \o ToString(RunData_get(rd, "iteration", "")) \o "/convergence/" \o ToString(ws)
    \o "/state.cpt"

move_cpt_raises_only_value_error(rd, ws, fs) ==
    /\ updated_path(rd, ws) \notin fs
    /\ RunData_get(rd, "phase", "") \in {"training", "convergence"}
    /\ RunData_get(rd, "iteration", "") - 1 > -1

move_cpt_raises_after_second_iteration(rd, ws, fs) ==
    /\ updated_path(rd, ws) \notin fs
    /\ IF RunData_get(rd, "phase", "") \in {"training", "convergence"}
       THEN RunData_get(rd, "iteration", "") - 1 > 0
       ELSE gmx_cpt(rd, ws) \notin fs

\* __move_cpt raises (ValueError, or the error of shutil.copy on a missing source)
move_cpt_raises(rd, ws, fs) ==
    /\ updated_path(rd, ws) \notin fs
    /\ IF RunData_get(rd, "phase", "") \in {"training", "convergence"}
       THEN RunData_get(rd, "iteration", "") - 1 > -1
       ELSE gmx_cpt(rd, ws) \notin fs

\* __move_cpt: the files after it returned
move_cpt(rd, ws, dir, fs) ==
    IF updated_path(rd, ws) \in fs THEN fs
    ELSE IF RunData_get(rd, "phase", "") \in {"training", "convergence"} THEN fs
    ELSE fs \cup {dir \o "/state.cpt"}

\* __train: the backup of a checkpoint found in the working directory
backup_cpt(dir, fs) ==
    IF dir \o "/state.cpt" \in fs
    THEN (fs \ {dir \o "/state.cpt"}) \cup {dir \o "/state.cpt.bak"}
    ELSE fs

(***************************************************************************)
(* RunConfig (run_config.py).                                              *)
(***************************************************************************)
RECURSIVE from_all_pair_data(_, _)
\* __init__, lines 67-68: from_pair_data for every pair of the pair-data file
from_all_pair_data(rd, names) ==
    IF names = <<>> THEN rd
    ELSE from_all_pair_data(from_pair_data(rd, Head(names), PairSites[Head(names)]), Tail(names))

\* __init__, lines 54-55
new_run_data == RunData_set(RunData, "", "ensemble_num", ensemble_num)

init_run_data_resetting_pairs(json) ==
    IF json # <<>>
    THEN [run_data |-> from_all_pair_data(from_dictionary(new_run_data, json[1]), PairNames),
          called_from_pair_data |-> TRUE]
    ELSE [run_data |-> from_all_pair_data(new_run_data, PairNames),
          called_from_pair_data |-> TRUE]

\* __init__, lines 62-68: the run data after loading state.json or the pair data
init_run_data(json) ==
    IF json # <<>>
    THEN [run_data |-> from_dictionary(new_run_data, json[1]),
          called_from_pair_data |-> FALSE]
    ELSE [run_data |-> from_all_pair_data(new_run_data, PairNames),
          called_from_pair_data |-> TRUE]

\* __init__, line 69: save_config is called when no state.json was found
init_saves(json) == json = <<>>

RECURSIVE set_targets_clearing_alpha(_, _, _)
set_targets_clearing_alpha(rd, names, tgts) ==
    IF names = <<>> THEN rd
    ELSE set_targets_clearing_alpha(
             RunData_set(RunData_set(rd, Head(names), "target", Lookup(tgts, Head(names))),
                         Head(names), "alpha", 0),
             Tail(names), tgts)

RECURSIVE set_targets(_, _, _)
\* __train, lines 182-183
set_targets(rd, names, tgts) ==
    IF names = <<>> THEN rd
    ELSE set_targets(RunData_set(rd, Head(names), "target", Lookup(tgts, Head(names))),
                     Tail(names), tgts)

\* build_plugins: the name of the plugin of a pair is the text of its sites
plugin_name(rd, name) == RunData_get(rd, "sites", name)

\* __train, lines 206-211: the last pair whose sites give the plugin name
sites_to_name(rd, pname) ==
    PairNames[CHOOSE i \in 1..Len(PairNames) :
        /\ plugin_name(rd, PairNames[i]) = pname
        /\ \A j \in (i + 1)..Len(PairNames) : plugin_name(rd, PairNames[j]) # pname]

RECURSIVE harvest_alphas(_, _, _)
\* __train, lines 222-228: the alphas mapping
harvest_alphas(rd, pots, alphas) ==
    IF pots = <<>> THEN alphas
    ELSE harvest_alphas(rd, Tail(pots),
                        PutItem(alphas, sites_to_name(rd, Head(pots).name), Head(pots).alpha))

RECURSIVE harvest_params(_, _)
\* __train, lines 223-230: alpha and target of every potential go to its pair
harvest_params(rd, pots) ==
    IF pots = <<>> THEN rd
    ELSE LET current_name == sites_to_name(rd, Head(pots).name)
         IN  harvest_params(
                 RunData_set(RunData_set(rd, current_name, "alpha", Head(pots).alpha),
                             current_name, "target", Head(pots).target),
                 Tail(pots))

\* __train, lines 222-234
harvest(rd, pots, tgts) ==
    [harvest_params(rd, pots)
        EXCEPT !.history = new_entry(rd.history, harvest_alphas(rd, pots, <<>>), tgts)]

advance_skipping_convergence(rd, ph, snp) ==
    IF ph = "training" THEN RunData_set(rd, "", "phase", "production")
    ELSE IF ph = "convergence"
         THEN IF snp THEN RunData_set(rd, "", "phase", "production") ELSE rd
    ELSE IF snp
         THEN RunData_set(RunData_set(RunData_set(rd, "", "phase", "training"),
                                      "", "start_time", 0),
                          "", "iteration", RunData_get(rd, "iteration", "") + 1)
         ELSE rd

advance_keeping_start_time(rd, ph, snp) ==
    IF ph = "training" THEN RunData_set(rd, "", "phase", "convergence")
    ELSE IF ph = "convergence"
         THEN IF snp THEN RunData_set(rd, "", "phase", "production") ELSE rd
    ELSE IF snp
         THEN RunData_set(RunData_set(rd, "", "phase", "training"),
                          "", "iteration", RunData_get(rd, "iteration", "") + 1)
         ELSE rd

advance_ignoring_flag(rd, ph, snp) ==
    IF ph = "training" THEN RunData_set(rd, "", "phase", "convergence")
    ELSE IF ph = "convergence" THEN RunData_set(rd, "", "phase", "production")
    ELSE RunData_set(RunData_set(RunData_set(rd, "", "phase", "training"),
                                 "", "start_time", 0),
                     "", "iteration", RunData_get(rd, "iteration", "") + 1)

\* run, lines 290-300: the phase (and iteration, start_time) after the phase's work
advance(rd, ph, snp) ==
    IF ph = "training" THEN RunData_set(rd, "", "phase", "convergence")
    ELSE IF ph = "convergence"
         THEN IF snp THEN RunData_set(rd, "", "phase", "production") ELSE rd
    ELSE IF snp
         THEN RunData_set(RunData_set(RunData_set(rd, "", "phase", "training"),
                                      "", "start_time", 0),
                          "", "iteration", RunData_get(rd, "iteration", "") + 1)
         ELSE rd

converge_harvest_clearing_alpha(rd, pots) ==
    RunData_set(RunData_set(rd, "", "start_time", pots[1].time), PairNames[1], "alpha", 0)

\* __converge, line 250: the end time of the engine becomes start_time
converge_harvest(rd, pots) == RunData_set(rd, "", "start_time", pots[1].time)

production_end_time_relative(rd) == RunData_get(rd, "production_time", "")

\* __production, line 266: end_time
production_end_time(rd) ==
    RunData_get(rd, "production_time", "") + RunData_get(rd, "start_time", "")

\* run.py, line 37: config.run_data.set(A=100, history=history)
driver_set(rd) == RunData_set(RunData_set(rd, "", "A", driver_A), "", "history", ensemble_history)

\* save_config: the content written to state.json
save_config(rd) == <<as_dictionary(rd)>>

\* what the engine can report after training: one potential per plugin, in plugin order
TrainingReports(rd) ==
    {[i \in 1..Len(PairNames) |->
        [name |-> plugin_name(rd, PairNames[i]), alpha |-> a[PairNames[i]],
         target |-> t[PairNames[i]]]] :
     a \in [Names -> AlphaSpace], t \in [Names -> TargetSpace]}

(***************************************************************************)
(* The member before its first process: no state.json, no checkpoint.      *)
(***************************************************************************)
Init ==
    /\ pc = "down"
    /\ run_data = RunData
    /\ state_json = <<>>
    /\ files = {}
    /\ cwd = ""
    /\ phase = ""
    /\ set_next_phase = FALSE
    /\ targets = <<>>
    /\ potentials = <<>>
    /\ end_time = 0
    /\ doc_before = <<>>
    /\ mem_before = <<>>
    /\ outcome = "none"
    /\ engine_invoked = FALSE
    /\ first_in_ledger = FALSE
    /\ redrew = FALSE
    /\ called_from_pair_data = FALSE
    /\ call = NoCall
    /\ recorded = {}

\* the process ends: its memory is gone
ProcessEnds ==
    /\ pc' = "down"
    /\ run_data' = RunData
    /\ phase' = ""
    /\ set_next_phase' = FALSE
    /\ cwd' = ""
    /\ potentials' = <<>>
    /\ end_time' = 0
    /\ first_in_ledger' = FALSE
    /\ redrew' = FALSE
    /\ called_from_pair_data' = FALSE
    /\ UNCHANGED harness

\* run() ends by an error that nothing catches
Raise ==
    /\ ProcessEnds
    /\ outcome' = "raised"
    /\ UNCHANGED <<state_json, doc_before, mem_before, targets>>

\* RunConfig.__init__, lines 39-69
Construct ==
    /\ pc = "down"
    /\ pc' = "constructed"
    /\ run_data' = init_run_data(state_json).run_data
    /\ called_from_pair_data' = init_run_data(state_json).called_from_pair_data
    /\ outcome' = IF state_json # <<>> THEN "reloaded" ELSE "created"
    /\ state_json' = IF init_saves(state_json) THEN save_config(run_data') ELSE state_json
    /\ doc_before' = <<>>
    /\ mem_before' = <<>>
    /\ engine_invoked' = FALSE
    /\ UNCHANGED <<files, cwd, phase, set_next_phase, locals, harness>>

\* run.py, line 37: the driver sets A and hands over the ensemble-wide history
DriverSet ==
    /\ pc = "constructed"
    /\ run_data' = driver_set(run_data)
    /\ pc' = "idle"
    /\ outcome' = "configured"
    /\ UNCHANGED <<state_json, files, cwd, phase, set_next_phase, locals, doc_before,
                   mem_before, engine_invoked, called_from_pair_data, harness>>

\* run, lines 286-288: read the phase and change into the working directory
RunBegin(snp) ==
    /\ pc = "idle"
    /\ RunData_get(run_data, "iteration", "") <= MaxIter
    /\ set_next_phase' = snp
    /\ phase' = RunData_get(run_data, "phase", "")
    /\ cwd' = change_directory(run_data, work_sample)
    /\ pc' = IF phase' = "training" THEN "train_resample"
             ELSE IF phase' = "convergence" THEN "conv_cpt" ELSE "prod_cpt"
    /\ doc_before' = state_json
    /\ mem_before' = save_config(run_data)
    /\ outcome' = "running"
    /\ engine_invoked' = FALSE
    /\ called_from_pair_data' = FALSE
    /\ targets' = <<>>
    /\ potentials' = <<>>
    /\ end_time' = 0
    /\ first_in_ledger' = FALSE
    /\ redrew' = FALSE
    /\ UNCHANGED <<run_data, state_json, files, harness>>

\* __train, line 176: the first draw
Resample ==
    /\ pc = "train_resample"
    /\ \E t \in DictsOver(TargetSpace) :
        /\ targets' = t
        /\ first_in_ledger' = (target_key(t) \in DOMAIN run_data.history.metadata)
    /\ pc' = "train_loop"
    /\ UNCHANGED <<run_data, state_json, files, cwd, phase, set_next_phase,
                   potentials, end_time, doc_before, mem_before, outcome, engine_invoked, redrew,
                   called_from_pair_data>>

TrainResample == Resample /\ UNCHANGED harness

\* __train, lines 177-178: the draw is in the history, draw again
Redraw ==
    /\ pc = "train_loop"
    /\ check_targets(run_data.history, targets)
    /\ \E t \in DictsOver(TargetSpace) : targets' = t
    /\ redrew' = TRUE
    /\ UNCHANGED <<pc, run_data, state_json, files, cwd, phase, set_next_phase,
                   potentials, end_time, doc_before, mem_before, outcome, engine_invoked,
                   first_in_ledger, called_from_pair_data>>

TrainRedraw == Redraw /\ UNCHANGED harness

\* __train, lines 180-186: the draw is accepted, written to the pairs and saved
SetTargets ==
    /\ pc = "train_loop"
    /\ ~check_targets(run_data.history, targets)
    /\ run_data' = set_targets(run_data, PairNames, targets)
    /\ state_json' = save_config(run_data')
    /\ pc' = "train_cpt"
    /\ UNCHANGED <<files, cwd, phase, set_next_phase, locals, doc_before, mem_before, outcome,
                   engine_invoked, called_from_pair_data>>

TrainSetTargets == SetTargets /\ UNCHANGED harness

\* __train, lines 190-198: back up a checkpoint found here, then __move_cpt
TrainCpt ==
    /\ pc = "train_cpt"
    /\ files' = backup_cpt(cwd, files)
    /\ IF move_cpt_raises(run_data, work_sample, files')
       THEN Raise /\ UNCHANGED engine_invoked
       ELSE /\ pc' = "train_engine"
            /\ UNCHANGED <<run_data, state_json, cwd, phase, set_next_phase, locals,
                           doc_before, mem_before, outcome, engine_invoked, called_from_pair_data,
                           harness>>

\* __train, lines 200-234: the engine trains the restraints, then alpha and target
\* are harvested and the history entry is recorded; the engine may fail, and it may
\* leave a checkpoint in the working directory
TrainEngine ==
    /\ pc = "train_engine"
    /\ engine_invoked' = TRUE
    /\ \E cpt \in BOOLEAN :
        files' = IF cpt THEN files \cup {cwd \o "/state.cpt"} ELSE files
    /\ \/ /\ \E p \in TrainingReports(run_data) :
                /\ potentials' = p
                /\ run_data' = harvest(run_data, p, targets)
          /\ pc' = "finish"
          /\ UNCHANGED <<state_json, cwd, phase, set_next_phase, targets, end_time,
                         doc_before, mem_before, outcome, first_in_ledger, redrew,
                         called_from_pair_data, harness>>
       \/ Raise

\* __converge, line 238, and __production, line 261: __move_cpt
MoveCpt ==
    /\ pc \in {"conv_cpt", "prod_cpt"}
    /\ IF move_cpt_raises(run_data, work_sample, files)
       THEN Raise /\ UNCHANGED <<files, engine_invoked>>
       ELSE /\ files' = move_cpt(run_data, work_sample, cwd, files)
            /\ pc' = IF pc = "conv_cpt" THEN "conv_engine" ELSE "prod_engine"
            /\ UNCHANGED <<run_data, state_json, cwd, phase, set_next_phase, locals,
                           doc_before, mem_before, outcome, engine_invoked, called_from_pair_data,
                           harness>>

\* __converge, lines 240-250: the engine runs and reports its end time in
\* context.potentials[0].time, which becomes start_time
ConvEngine ==
    /\ pc = "conv_engine"
    /\ engine_invoked' = TRUE
    /\ \E cpt \in BOOLEAN :
        files' = IF cpt THEN files \cup {cwd \o "/state.cpt"} ELSE files
    /\ \/ /\ \E time \in TimeSpace :
                /\ potentials' = <<[time |-> time]>>
                /\ run_data' = converge_harvest(run_data, potentials')
          /\ pc' = "finish"
          /\ UNCHANGED <<state_json, cwd, phase, set_next_phase, targets, end_time,
                         first_in_ledger, redrew, doc_before, mem_before, outcome,
                         called_from_pair_data, harness>>
       \/ Raise

\* __production, lines 266-275: the engine runs until production_time + start_time
ProdEngine ==
    /\ pc = "prod_engine"
    /\ engine_invoked' = TRUE
    /\ \E cpt \in BOOLEAN :
        files' = IF cpt THEN files \cup {cwd \o "/state.cpt"} ELSE files
    /\ \/ /\ end_time' = production_end_time(run_data)
          /\ pc' = "finish"
          /\ UNCHANGED <<run_data, state_json, cwd, phase, set_next_phase, targets,
                         potentials, doc_before, mem_before, outcome, first_in_ledger, redrew,
                         called_from_pair_data, harness>>
       \/ Raise

\* run, lines 290-302: set the next phase, save state.json, return
RunFinish ==
    /\ pc = "finish"
    /\ run_data' = advance(run_data, phase, set_next_phase)
    /\ state_json' = save_config(run_data')
    /\ pc' = "idle"
    /\ outcome' = "returned"
    /\ UNCHANGED <<files, cwd, phase, set_next_phase, locals, doc_before,
                   mem_before, engine_invoked, called_from_pair_data, harness>>

\* the process is killed at any point, or the driver script ends
Kill ==
    /\ pc # "down"
    /\ ProcessEnds
    /\ outcome' = "killed"
    /\ targets' = <<>>
    /\ doc_before' = <<>>
    /\ mem_before' = <<>>
    /\ engine_invoked' = FALSE
    /\ UNCHANGED <<state_json, files>>

Next ==
    \/ Construct
    \/ DriverSet
    \/ \E snp \in BOOLEAN : RunBegin(snp)
    \/ TrainResample
    \/ TrainRedraw
    \/ TrainSetTargets
    \/ TrainCpt
    \/ TrainEngine
    \/ MoveCpt
    \/ ConvEngine
    \/ ProdEngine
    \/ RunFinish
    \/ Kill

Spec == Init /\ [][Next]_vars

(***************************************************************************)
(* Single objects: the methods of History, RunData and DirectoryHelper     *)
(* called in any order on one object, outside a run.                       *)
(***************************************************************************)
\* the variables of the driver process, which stay as Init leaves them
process ==
    <<pc, state_json, files, cwd, phase, set_next_phase, targets, potentials, end_time,
      doc_before, mem_before, outcome, engine_invoked, first_in_ledger, redrew,
      called_from_pair_data>>

\* every target mapping the resampler can return, in every insertion order
AllTargets == DictsOver(TargetSpace)

\* alphas mappings handed to new_entry: complete ones and one without any pair
AlphaDicts ==
    {<<>>, <<<<"C-D", 1>>, <<"A-B", 2>>>>, <<<<"A-B", 1>>, <<"C-D", 2>>>>}

\* History.new_entry(alphas, targets) on run_data.history
History_new_entry ==
    /\ \E a \in AlphaDicts, t \in AllTargets :
        /\ \/ Cardinality(DOMAIN run_data.history.metadata) < MaxEntries
           \/ target_key(t) \in DOMAIN run_data.history.metadata
        /\ run_data' = [run_data EXCEPT !.history = new_entry_call(@, a, t)]
        /\ call' = [op |-> "new_entry", alphas |-> a, targets |-> t,
                    raised |-> new_entry_raises(run_data.history, a, t)]
        /\ recorded' = IF new_entry_raises(run_data.history, a, t) THEN recorded
                       ELSE recorded \cup {target_key(t)}
    /\ UNCHANGED process

\* History.check_targets(targets) on run_data.history
History_check_targets ==
    /\ \E t \in AllTargets :
        call' = [op |-> "check_targets", targets |-> t,
                 result |-> check_targets(run_data.history, t)]
    /\ UNCHANGED <<run_data, recorded, process>>

HistoryNext == History_new_entry \/ History_check_targets

\* a History that starts empty and is used through its two methods only
HistorySpec == Init /\ [][HistoryNext]_vars

\* the keys RunData.set and RunData.get are called with
TestKeys ==
    {"phase", "iteration", "A", "sites", "logging_filename", "alpha", "target", "history"}

\* the value RunData.set is given for each key; A, alpha and history differ from
\* what a new RunData and a new pair A-B hold
KwargValue ==
    [phase |-> "training", iteration |-> 0, A |-> driver_A, sites |-> PairSites["A-B"],
     logging_filename |-> "A-B.log", alpha |-> 1, target |-> 3,
     history |-> ensemble_history]

\* the names RunData.set and RunData.get are called with: None and one pair
TestNames == {"", "A-B"}

\* the keyword arguments of a RunData.set call: one key, or two keys in order
SetKwargs ==
    {<<<<k, KwargValue[k]>>>> : k \in TestKeys}
    \cup {<<<<"A", KwargValue["A"]>>, <<"sites", KwargValue["sites"]>>>>,
          <<<<"sites", KwargValue["sites"]>>, <<"A", KwargValue["A"]>>>>,
          <<<<"alpha", KwargValue["alpha"]>>, <<"phase", KwargValue["phase"]>>>>}

\* the documents handed to from_dictionary: the defaults without pairs, the document
\* of a new member, and a document with the pair A-B only and a history entry
Documents ==
    {as_dictionary(RunData),
     as_dictionary(from_all_pair_data(RunData, PairNames)),
     as_dictionary(
        [RunData_set(from_pair_data(RunData, "A-B", PairSites["A-B"]), "A-B", "alpha", 2)
            EXCEPT !.history = MetaData_set(@, "1.0,2.0", <<1, 2>>)])}

\* RunData.from_pair_data(pd)
RunData_from_pair_data ==
    /\ \E n \in Names :
        /\ run_data' = from_pair_data(run_data, n, PairSites[n])
        /\ call' = [op |-> "from_pair_data", name |-> n]
    /\ UNCHANGED <<recorded, process>>

\* RunData.set(name, **kwargs)
RunData_set_call ==
    /\ \E n \in TestNames, kw \in SetKwargs :
        /\ run_data' = RunData_set_kwargs(run_data, n, kw).run_data
        /\ call' = [op |-> "set", name |-> n, kwargs |-> kw,
                    raised |-> RunData_set_kwargs(run_data, n, kw).raised,
                    at |-> RunData_set_kwargs(run_data, n, kw).at]
    /\ UNCHANGED <<recorded, process>>

\* RunData.get(key, name)
RunData_get_call ==
    /\ \E n \in TestNames, k \in TestKeys :
        call' = [op |-> "get", name |-> n, key |-> k,
                 raised |-> RunData_get_error(run_data, k, n)]
    /\ UNCHANGED <<run_data, recorded, process>>

\* RunData.from_dictionary(data)
RunData_from_dictionary ==
    /\ \E d \in Documents :
        /\ run_data' = from_dictionary(run_data, d)
        /\ call' = [op |-> "from_dictionary", data |-> d]
    /\ UNCHANGED <<recorded, process>>

\* GeneralParams.set_to_defaults() on a new GeneralParams or on the one of the RunData
GeneralParams_set_to_defaults_call ==
    /\ \E obj \in {GeneralParams, run_data.general_params} :
        call' = [op |-> "set_to_defaults", store |-> "general", before |-> obj,
                 after |-> GeneralParams_set_to_defaults(obj)]
    /\ UNCHANGED <<run_data, recorded, process>>

\* PairParams.set_to_defaults() on a new PairParams, before or after load_sites, or on
\* a pair of the RunData
PairParams_set_to_defaults_call ==
    /\ \E obj \in {PairParams(n) : n \in Names}
                  \cup {load_sites(PairParams(n), PairSites[n]) : n \in Names}
                  \cup {run_data.pair_params[n] : n \in DOMAIN run_data.pair_params} :
        call' = [op |-> "set_to_defaults", store |-> "pair", before |-> obj,
                 after |-> PairParams_set_to_defaults(obj)]
    /\ UNCHANGED <<run_data, recorded, process>>

RunDataNext ==
    \/ RunData_from_pair_data
    \/ RunData_set_call
    \/ RunData_get_call
    \/ RunData_from_dictionary
    \/ GeneralParams_set_to_defaults_call
    \/ PairParams_set_to_defaults_call

\* a RunData that starts as RunData() leaves it and is used through its methods
RunDataSpec == Init /\ [][RunDataNext]_vars

\* the phases of a run
Phases == {"training", "convergence", "production"}

\* the work samples a caller gives: an int, or None for no work sample
WorkSamples == {None, 1, 2}

\* the top directories and ensemble members DirectoryHelper is built for
TopDirs == {ens_dir, "/scratch" \o ens_dir}

\* the param_dict of a DirectoryHelper: the three required keys, with or without
\* the key work_sample
ParamDicts ==
    {[ensemble_num |-> e, iteration |-> i, phase |-> ph] :
        e \in {ensemble_num, ensemble_num + 1}, i \in 0..MaxIter, ph \in Phases}
    \cup {[ensemble_num |-> e, iteration |-> i, phase |-> ph, work_sample |-> ws] :
        e \in {ensemble_num, ensemble_num + 1}, i \in 0..MaxIter, ph \in Phases,
        ws \in WorkSamples}

\* DirectoryHelper(top_dir, param_dict).build_working_dir()
DirectoryHelper_build_working_dir ==
    /\ \E top \in TopDirs, pdict \in ParamDicts :
        call' = [op |-> "build_working_dir", top_dir |-> top, pdict |-> pdict,
                 raised |-> build_working_dir_error(pdict),
                 made |-> build_working_dir(top, pdict)]
    /\ UNCHANGED <<run_data, recorded, process>>

\* RunConfig.__change_directory of a RunConfig built with work sample ws, in a given
\* phase and iteration: the directories made and the directory changed into
RunConfig_change_directory ==
    /\ \E ws \in WorkSamples, i \in 0..MaxIter, ph \in Phases :
        LET rd == RunData_set(RunData_set(new_run_data, "", "phase", ph), "", "iteration", i)
            pdict == change_directory_params(rd, ws)
        IN  call' = [op |-> "change_directory", top_dir |-> ens_dir, pdict |-> pdict,
                     raised |-> build_working_dir_error(pdict),
                     made |-> build_working_dir(ens_dir, pdict),
                     dir |-> IF build_working_dir_error(pdict) = ""
                             THEN change_directory(rd, ws) ELSE ""]
    /\ UNCHANGED <<run_data, recorded, process>>

DirectoryNext == DirectoryHelper_build_working_dir \/ RunConfig_change_directory

\* the working directory resolved for any phase, iteration and work sample
DirectorySpec == Init /\ [][DirectoryNext]_vars

(***************************************************************************)
(* The draw loop of __train with its redraws counted: the process of Spec, *)
(* where call holds the number of redraws of the training run() at hand.   *)
(***************************************************************************)
\* the target sets the resampler can return, whatever their insertion order
TargetSets == [Names -> TargetSpace]

\* redraws are counted up to one more than there are target sets
MaxRedraws == Cardinality(TargetSets) + 1

\* __train, line 176, opening the count of redraws
CountedResample ==
    /\ Resample
    /\ call' = [op |-> "draw_loop", redraws |-> 0]
    /\ UNCHANGED recorded

\* __train, lines 177-178, counted
CountedRedraw ==
    /\ Redraw
    /\ call.redraws < MaxRedraws
    /\ call' = [call EXCEPT !.redraws = @ + 1]
    /\ UNCHANGED recorded

LoopNext ==
    \/ Construct
    \/ DriverSet
    \/ \E snp \in BOOLEAN : RunBegin(snp)
    \/ CountedResample
    \/ CountedRedraw
    \/ TrainSetTargets
    \/ TrainCpt
    \/ TrainEngine
    \/ MoveCpt
    \/ ConvEngine
    \/ ProdEngine
    \/ RunFinish
    \/ Kill

LoopSpec == Init /\ [][LoopNext]_vars

(***************************************************************************)
(* The member with a pair-data file that can differ from one process to    *)
(* the next: call holds the names the process read from its file.          *)
(***************************************************************************)
\* the names of the pair-data files a process can be given
PairFiles == {PairNames, <<"A-B">>}

\* __init__, lines 46-69, for the names read from the pair-data file
RunConfig_init(json, names) ==
    IF json # <<>>
    THEN [run_data |-> from_dictionary(new_run_data, json[1]),
          called_from_pair_data |-> FALSE]
    ELSE [run_data |-> from_all_pair_data(new_run_data, names),
          called_from_pair_data |-> TRUE]

\* RunConfig.__init__ with one of the pair-data files
FileConstruct ==
    /\ pc = "down"
    /\ pc' = "constructed"
    /\ \E names \in PairFiles :
        /\ run_data' = RunConfig_init(state_json, names).run_data
        /\ called_from_pair_data' = RunConfig_init(state_json, names).called_from_pair_data
        /\ call' = [op |-> "RunConfig", names |-> names]
    /\ outcome' = IF state_json # <<>> THEN "reloaded" ELSE "created"
    /\ state_json' = IF init_saves(state_json) THEN save_config(run_data') ELSE state_json
    /\ doc_before' = <<>>
    /\ mem_before' = <<>>
    /\ engine_invoked' = FALSE
    /\ UNCHANGED <<files, cwd, phase, set_next_phase, locals, recorded>>

\* run() is followed in the processes whose file and whose pair parameters both hold
\* the pairs of PairNames; the other processes are constructed, configured and ended
FileRunBegin(snp) ==
    /\ RunBegin(snp)
    /\ call.names = PairNames
    /\ DOMAIN run_data.pair_params = Names

PairFileNext ==
    \/ FileConstruct
    \/ DriverSet
    \/ \E snp \in BOOLEAN : FileRunBegin(snp)
    \/ TrainResample
    \/ TrainRedraw
    \/ TrainSetTargets
    \/ TrainCpt
    \/ TrainEngine
    \/ MoveCpt
    \/ ConvEngine
    \/ ProdEngine
    \/ RunFinish
    \/ Kill

PairFileSpec == Init /\ [][PairFileNext]_vars

(***************************************************************************)
(* Properties.                                                             *)
(***************************************************************************)
\* the general parameters of a persisted document held as <<document>>
General(json) == json[1]["general parameters"]

Pairs(json) == json[1]["pair parameters"]

Ledger(json) == json[1]["history"]

\* the cyclic successor of a phase
Successor(ph) ==
    IF ph = "training" THEN "convergence"
    ELSE IF ph = "convergence" THEN "production" ELSE "training"

\* the pair names in ascending order
AscendingNames == <<"A-B", "C-D">>

\* the last run() call returned normally and nothing has happened since
Returned == pc = "idle" /\ outcome = "returned"

\* C1: every change of the persisted phase is training -> convergence,
\* convergence -> production or production -> training.
C1_PhaseEdges ==
    [][(state_json # <<>> /\ state_json' # <<>>
        /\ General(state_json').phase # General(state_json).phase)
       => <<General(state_json).phase, General(state_json').phase>> \in
            {<<"training", "convergence">>, <<"convergence", "production">>,
             <<"production", "training">>}]_vars

C1_Witness ==
    /\ Returned
    /\ General(doc_before).phase = "production"
    /\ General(state_json).phase = "training"

\* C2: the persisted iteration changes only together with the production -> training
\* edge, then by exactly +1 and with start_time 0; that edge always increments it.
C2_IterationOnWrap ==
    [][(state_json # <<>> /\ state_json' # <<>>)
       => /\ (General(state_json').iteration # General(state_json).iteration
              \/ (General(state_json).phase = "production"
                  /\ General(state_json').phase = "training"))
             => /\ General(state_json).phase = "production"
                /\ General(state_json').phase = "training"
                /\ General(state_json').iteration = General(state_json).iteration + 1
                /\ General(state_json').start_time = 0]_vars

C2_Witness ==
    /\ Returned
    /\ General(doc_before).phase = "production"
    /\ General(doc_before).start_time # 0
    /\ General(state_json).iteration = General(doc_before).iteration + 1
    /\ General(state_json).start_time = 0

\* C3 as stated: every run() that returns normally leaves the persisted phase at the
\* cyclic successor of the phase at the start of the call.
C3_Original ==
    Returned => General(state_json).phase = Successor(General(doc_before).phase)

\* C3 amended: a run() that returns normally leaves the persisted phase at the cyclic
\* successor when the call was in training or was made with set_next_phase true, and
\* leaves it unchanged when it was in convergence or production without set_next_phase.
C3_AdvanceWhenAsked ==
    Returned =>
        General(state_json).phase =
            IF General(doc_before).phase = "training" \/ set_next_phase
            THEN Successor(General(doc_before).phase)
            ELSE General(doc_before).phase

C3_Witness ==
    /\ Returned
    /\ General(doc_before).phase = "convergence"
    /\ ~set_next_phase
    /\ General(state_json).phase = "convergence"

\* C4: in training, once the draw is accepted its signature is not a key of the
\* history, it is the target set held by the pairs up to and through the engine run,
\* and a first draw that was in the history has been followed by a redraw.
C4_FreshTargets ==
    pc \in {"train_cpt", "train_engine"} =>
        /\ Join([i \in 1..Len(AscendingNames) |-> Str(Lookup(targets, AscendingNames[i]))])
              \notin DOMAIN run_data.history.metadata
        /\ \A n \in Names : run_data.pair_params[n].metadata["target"] = Lookup(targets, n)
        /\ first_in_ledger => redrew

C4_Witness ==
    /\ pc = "train_cpt"
    /\ first_in_ledger
    /\ redrew
    /\ DOMAIN run_data.history.metadata # {}

\* C5: after a training run() that returned, the persisted phase is convergence, every
\* pair holds the alpha and target the engine reported for it, and the history maps the
\* signature of the drawn targets to the reported alphas in ascending pair-name order.
C5_TrainingResult ==
    (Returned /\ phase = "training") =>
        /\ General(state_json).phase = "convergence"
        /\ \A i \in 1..Len(PairNames) :
              /\ Pairs(state_json)[PairNames[i]]["alpha"] = potentials[i].alpha
              /\ Pairs(state_json)[PairNames[i]]["target"] = potentials[i].target
        /\ LET key == Join([i \in 1..Len(AscendingNames) |->
                            Str(Lookup(targets, AscendingNames[i]))])
           IN  /\ key \in DOMAIN Ledger(state_json)
               /\ Ledger(state_json)[key] =
                    [i \in 1..Len(AscendingNames) |->
                        potentials[CHOOSE j \in 1..Len(PairNames) :
                                       PairNames[j] = AscendingNames[i]].alpha]

C5_Witness ==
    /\ Returned
    /\ phase = "training"
    /\ Keys(targets) # AscendingNames
    /\ potentials[1].alpha # potentials[2].alpha
    /\ \E i \in 1..Len(PairNames) : potentials[i].target # Lookup(targets, PairNames[i])

\* the production run() in progress found neither a checkpoint in its working
\* directory nor the convergence checkpoint of its iteration and work sample
NoCheckpointForProduction ==
    /\ updated_path(run_data, work_sample) \notin files
    /\ gmx_cpt(run_data, work_sample) \notin files

\* C6: a production run() that finds neither checkpoint ends with an error, without
\* the engine having been invoked and with state.json as it was before the call.
C6_ProductionNeedsCheckpoint ==
    [][(pc = "prod_cpt" /\ NoCheckpointForProduction /\ pc' # "prod_cpt"
        /\ outcome' # "killed")
       => /\ outcome' = "raised"
          /\ ~engine_invoked'
          /\ state_json' = doc_before
          /\ files' = files]_vars

C6_Witness ==
    /\ pc = "down"
    /\ outcome = "raised"
    /\ General(doc_before).phase = "production"
    /\ ~engine_invoked
    /\ state_json = doc_before
    /\ ens_dir \o "/mem_1/0/production/" \o ToString(work_sample) \o "/state.cpt" \notin files
    /\ ens_dir \o "/mem_1/0/convergence/" \o ToString(work_sample) \o "/state.cpt" \notin files

\* a run() call is in progress, or has ended by an error
Unfinished == outcome \in {"running", "raised"}

\* C7 as stated: until a run() call completes, state.json is the document as it was
\* before the call.
C7_Original == Unfinished => state_json = doc_before

\* the document with the target of every pair replaced by the drawn target
WithTargets(json, tgts) ==
    <<[k \in DOMAIN json[1] |->
        IF k = "pair parameters"
        THEN [n \in DOMAIN Pairs(json) |-> Put(Pairs(json)[n], "target", Lookup(tgts, n))]
        ELSE json[1][k]]>>

\* C7 amended: until a run() call completes, state.json is the document as it was
\* before the call or, in training once the draw is accepted, that document with only
\* the target of every pair replaced by the drawn target.
C7_OnlyTargetsEarly ==
    Unfinished =>
        \/ state_json = doc_before
        \/ /\ General(doc_before).phase = "training"
           /\ targets # <<>>
           /\ state_json = WithTargets(mem_before, targets)

C7_Witness ==
    /\ pc = "train_engine"
    /\ state_json # doc_before
    /\ General(state_json).phase = "training"
    /\ \E n \in Names : Pairs(state_json)[n]["target"] # Pairs(doc_before)[n]["target"]

\* C8: a constructor that finds state.json holds exactly that document afterwards and
\* has not called from_pair_data.
C8_ReloadVerbatim ==
    outcome = "reloaded" =>
        /\ as_dictionary(run_data) = state_json[1]
        /\ ~called_from_pair_data
        /\ \A n \in Names :
              /\ run_data.pair_params[n].metadata["alpha"] = Pairs(state_json)[n]["alpha"]
              /\ run_data.pair_params[n].metadata["target"] = Pairs(state_json)[n]["target"]

C8_Witness ==
    /\ outcome = "reloaded"
    /\ \E n \in Names : Pairs(state_json)[n]["alpha"] # 0
    /\ DOMAIN Ledger(state_json) # {}

\* C9: a process exists only with a state.json on disk, and the document written by a
\* constructor that found none has every general key, the four keys of every pair of
\* the pair-data file, phase training, iteration 0 and an empty history.
C9_VirginDocument ==
    /\ pc # "down" => state_json # <<>>
    /\ outcome = "created" =>
          /\ DOMAIN General(state_json) = GeneralKeys
          /\ DOMAIN Pairs(state_json) = Names
          /\ \A n \in Names :
                /\ DOMAIN Pairs(state_json)[n] = PairKeys
                /\ Pairs(state_json)[n]["sites"] = PairSites[n]
          /\ General(state_json).phase = "training"
          /\ General(state_json).iteration = 0
          /\ DOMAIN Ledger(state_json) = {}

C9_Witness ==
    /\ outcome = "created"
    /\ ~engine_invoked
    /\ state_json # <<>>

\* t1 and t2 hold the same target for the same pair names
SameContent(t1, t2) ==
    /\ {t1[i][1] : i \in 1..Len(t1)} = {t2[i][1] : i \in 1..Len(t2)}
    /\ \A i \in 1..Len(t1) : Lookup(t2, t1[i][1]) = t1[i][2]

\* an alphas mapping with a different alpha for every pair
SomeAlphas == [i \in 1..Len(PairNames) |-> <<PairNames[i], i>>]

\* C10: two target mappings with the same content in different insertion order have
\* the same signature, check_targets answers the same for both and new_entry files
\* both under the same entry; a target set recorded by a training run() is found
\* again under every insertion order.
C10_OrderIndependent ==
    (pc = "train_loop" \/ (Returned /\ phase = "training")) =>
        \A t2 \in AllTargets :
            SameContent(targets, t2) =>
                /\ target_key(t2) = target_key(targets)
                /\ check_targets(run_data.history, t2) = check_targets(run_data.history, targets)
                /\ new_entry(run_data.history, SomeAlphas, t2)
                      = new_entry(run_data.history, SomeAlphas, targets)
                /\ (Returned /\ phase = "training") => check_targets(run_data.history, t2)

C10_Witness ==
    /\ Returned
    /\ phase = "training"
    /\ Keys(targets) # AscendingNames
    /\ Lookup(targets, "A-B") # Lookup(targets, "C-D")
    /\ check_targets(run_data.history, targets)

\* C11: a new_entry call whose signature is already a key of the ledger does not raise
\* and leaves the ledger as it was, whatever alphas is; and after any new_entry call,
\* the same call made again leaves the ledger as it is.
C11_NoOverwrite ==
    [][call'.op = "new_entry" =>
        /\ target_key(call'.targets) \in DOMAIN run_data.history.metadata
              => (~call'.raised /\ run_data' = run_data)
        /\ new_entry_call(run_data'.history, call'.alphas, call'.targets)
              = run_data'.history]_vars

C11_Witness ==
    /\ call.op = "new_entry"
    /\ call.alphas = <<>>
    /\ ~call.raised
    /\ Cardinality(DOMAIN run_data.history.metadata) = MaxEntries

\* C12: on a ledger used through new_entry and check_targets only, check_targets(t)
\* is true exactly when an earlier new_entry call that returned had the signature of
\* t; it is true right after new_entry(a, t) and false on the empty ledger.
C12_ContainsIffRecorded ==
    /\ \A t \in AllTargets :
          check_targets(run_data.history, t) <=> target_key(t) \in recorded
    /\ call.op = "check_targets" => (call.result <=> target_key(call.targets) \in recorded)
    /\ (call.op = "new_entry" /\ ~call.raised) => check_targets(run_data.history, call.targets)
    /\ run_data.history.metadata = EmptyDict =>
          \A t \in AllTargets : ~check_targets(run_data.history, t)

C12_Witness ==
    /\ call.op = "check_targets"
    /\ call.result
    /\ Keys(call.targets) # AscendingNames
    /\ Lookup(call.targets, "A-B") # Lookup(call.targets, "C-D")
    /\ \E t \in AllTargets : ~check_targets(run_data.history, t)

\* C13 as stated: after from_dictionary(d) on a RunData in any prior state,
\* as_dictionary() equals d.
C13_RoundTrip ==
    call.op = "from_dictionary" => as_dictionary(run_data) = call.data

\* a general-only key given with a pair name, or a pair-only key given without one
Misrouted(name, key) ==
    \/ name # "" /\ key \in GeneralKeys
    \/ name = "" /\ key \in PairKeys

\* what each parameter store holds under a key
StoredUnder(rd, key) ==
    [general |-> IF key \in DOMAIN rd.general_params.metadata
                 THEN <<rd.general_params.metadata[key]>> ELSE <<>>,
     history |-> IF key \in DOMAIN rd.history.metadata
                 THEN <<rd.history.metadata[key]>> ELSE <<>>,
     pairs |-> [n \in DOMAIN rd.pair_params |->
                 IF key \in DOMAIN rd.pair_params[n].metadata
                 THEN <<rd.pair_params[n].metadata[key]>> ELSE <<>>]]

\* C14: a RunData.set call raises at its first misrouted key (a general-only key with
\* a pair name, a pair-only key without a name), with ValueError when the name is
\* None or a pair the RunData holds, and no parameter store changes under that key.
C14_RoutingError ==
    [][call'.op = "set" =>
        \A i \in 1..Len(call'.kwargs) :
            (/\ Misrouted(call'.name, call'.kwargs[i][1])
             /\ \A j \in 1..(i - 1) :
                   ~Misrouted(call'.name, call'.kwargs[j][1]) /\ call'.kwargs[j][1] # "history")
            => /\ call'.raised # ""
               /\ ~RunData_set_key_error(run_data, call'.name)
                     => (call'.raised = "ValueError" /\ call'.at = call'.kwargs[i][1])
               /\ StoredUnder(run_data', call'.kwargs[i][1])
                     = StoredUnder(run_data, call'.kwargs[i][1])]_vars

C14_Witness ==
    /\ call.op = "set"
    /\ call.name = "A-B"
    /\ Len(call.kwargs) = 2
    /\ call.raised = "ValueError"
    /\ call.at = "phase"
    /\ run_data.pair_params["A-B"].metadata["alpha"] = KwargValue["alpha"]
    /\ "phase" \notin DOMAIN run_data.pair_params["A-B"].metadata

\* C15 as stated: for every key and every name (None or a pair the RunData holds),
\* RunData.get fails exactly when RunData.set fails for the same key and name.
C15_GetMirrorsSet ==
    (call.op = "get" /\ ~RunData_set_key_error(run_data, call.name)) =>
        (call.raised # ""
         <=> RunData_set_kwargs(run_data, call.name,
                                <<<<call.key, KwargValue[call.key]>>>>).raised # "")

\* the call was made for convergence or production and without a work sample: the
\* param_dict has no key work_sample, or holds None under it
WithoutWorkSample(pdict) ==
    /\ pdict["phase"] \in {"convergence", "production"}
    /\ "work_sample" \notin DOMAIN pdict \/ pdict["work_sample"] = None

\* C16 as stated: resolving the working directory for convergence or production
\* without a work sample fails and makes no work-sample directory; for training the
\* directory is <top>/mem_<n>/<iteration>/training, for convergence and production
\* it is <top>/mem_<n>/<iteration>/<phase>/<work sample>.
C16_WorkSampleMandatory ==
    call.op \in {"build_working_dir", "change_directory"} =>
        LET phase_dir == call.top_dir \o "/mem_" \o ToString(call.pdict["ensemble_num"])
                         \o "/" \o ToString(call.pdict["iteration"])
                         \o "/" \o call.pdict["phase"]
        IN  /\ WithoutWorkSample(call.pdict) =>
                  /\ call.raised # ""
                  /\ \A d \in call.made : Len(d) <= Len(phase_dir)
            /\ (call.op = "change_directory" /\ call.pdict["phase"] = "training") =>
                  call.dir = phase_dir
            /\ (call.op = "change_directory" /\ ~WithoutWorkSample(call.pdict)
                 /\ call.pdict["phase"] # "training") =>
                  call.dir = phase_dir \o "/" \o ToString(call.pdict["work_sample"])

\* the run data of the process as it would be in the given iteration
InIteration(it) == RunData_set(run_data, "", "iteration", it)

\* no run reaches convergence in an iteration after the first, so for convergence
\* the checkpoint step is asked what it would do there: at the checkpoint step of a
\* convergence run(), were the iteration a later one and no checkpoint in the working
\* directory of that iteration, __move_cpt raises
LaterIterationUnsupported ==
    pc = "conv_cpt" =>
        \A it \in 1..MaxIter :
            updated_path(InIteration(it), work_sample) \notin files
                => move_cpt_raises(InIteration(it), work_sample, files)

C18_CheckpointUntouched ==
    [][(/\ pc \in {"train_cpt", "conv_cpt", "prod_cpt"}
        /\ cwd \o "/state.cpt" \in files
        /\ pc' # pc
        /\ outcome' # "killed")
       => /\ files' = files
          /\ outcome' # "raised"]_vars

\* the history holds some target sets and not all of them
PartlyRecorded ==
    /\ DOMAIN run_data.history.metadata # {}
    /\ \E t \in AllTargets : ~check_targets(run_data.history, t)

C20_NoTerminalState ==
    [][(/\ pc = "train_cpt"
        /\ RunData_get(run_data, "iteration", "") > 0
        /\ pc' # pc
        /\ outcome' # "killed")
       => outcome' # "raised"]_vars

\* C21 as stated: after set_to_defaults, a parameter store of either type holds a
\* value for every key of its required-key set.
C21_DefaultsComplete ==
    call.op = "set_to_defaults" =>
        get_requirements(call.after) \subseteq DOMAIN call.after.metadata

\* the run() in progress is a convergence run() that returns with this step
ConvergenceReturns == pc = "finish" /\ phase = "convergence" /\ pc' = "idle"

\* C22: the end time a production run() hands to the engine is production_time plus
\* the start_time of the general parameters, which is the start_time of state.json;
\* a returning convergence run() writes the end time the engine reported to it as
\* start_time to state.json, and nothing else changes that start_time within an
\* iteration, whether or not the process is restarted.
C22_ProductionEndTime ==
    [][/\ (pc = "prod_engine" /\ pc' = "finish") =>
             /\ end_time' = General(state_json).production_time
                             + RunData_get(run_data, "start_time", "")
             /\ RunData_get(run_data, "start_time", "") = General(state_json).start_time
       /\ ConvergenceReturns => General(state_json').start_time = potentials[1].time
       /\ (/\ state_json # <<>>
           /\ General(state_json').start_time # General(state_json).start_time)
          => \/ ConvergenceReturns
             \/ General(state_json').iteration = General(state_json).iteration + 1]_vars

C22_Witness ==
    /\ pc = "finish"
    /\ phase = "production"
    /\ General(state_json).start_time \in TimeSpace
    /\ end_time = General(state_json).production_time + General(state_json).start_time

\* the sites and the logging file name of every pair the process holds
PairIdentity(rd) ==
    [n \in DOMAIN rd.pair_params |->
        [k \in DOMAIN rd.pair_params[n].metadata \cap {"sites", "logging_filename"} |->
            rd.pair_params[n].metadata[k]]]

\* C23 as stated: a constructed process, whether it started fresh or reloaded
\* state.json, holds pair parameters for exactly the names of its pair-data file, and
\* no step of the process adds or removes a pair or changes the sites or the logging
\* file name of one.
C23_PairsOfTheFile ==
    [][/\ pc' # "down" =>
             DOMAIN run_data'.pair_params = {call'.names[i] : i \in 1..Len(call'.names)}
       /\ (pc # "down" /\ pc' # "down") => PairIdentity(run_data') = PairIdentity(run_data)]_vars

\* two documents are the same but for the given general parameters
SameBut(doc1, doc2, keys) ==
    /\ Pairs(doc1) = Pairs(doc2)
    /\ Ledger(doc1) = Ledger(doc2)
    /\ \A k \in GeneralKeys \ keys : General(doc1)[k] = General(doc2)[k]

Extends(ledger2, ledger1) ==
    \A key \in DOMAIN ledger1 : key \in DOMAIN ledger2 /\ ledger2[key] = ledger1[key]

ParameterStores(rd) == <<rd.general_params, rd.pair_params>>

StoredValue(rd, name, key, value) ==
    IF name # "" THEN rd.pair_params[name].metadata[key] = value
    ELSE IF key = "history" THEN rd.history.metadata[key] = value
    ELSE rd.general_params.metadata[key] = value

\* the position of the key a set call raised at
RaisedAt(c) == CHOOSE i \in 1..Len(c.kwargs) : c.kwargs[i][1] = c.at

C27_EnsembleHistorySeen ==
    /\ pc \notin {"down", "constructed"} =>
          \A t \in AllTargets :
              target_key(t) \in DOMAIN ensemble_history => check_targets(run_data.history, t)
    /\ pc \in {"train_cpt", "train_engine"} => target_key(targets) \notin DOMAIN ensemble_history

=============================================================================
